---- MODULE Spec2Model ----
(***************************************************************************)
(* Pointcheval-Sanders signatures and the proof of knowledge of a          *)
(* signature with selective reveal (keys.rs, pok_sig.rs).                  *)
(*                                                                         *)
(* Group elements are written by their discrete logarithm to a fixed       *)
(* generator of a group of prime order Order: the group law is addition    *)
(* modulo Order, scalar multiplication is multiplication modulo Order, the *)
(* identity is 0 and the pairing e(a, b) is the product a * b modulo Order *)
(* (written additively in Gt, whose identity is 0).                        *)
(***************************************************************************)
EXTENDS Integers, Sequences, FiniteSets, TLC

\* The prime order of G1, G2, Gt and of the scalar field (scaled down).
Order == 3
\* The largest message count keygen is called with.
MaxMsgs == 2
\* The largest number of responses in a proof object made by hand.
MaxResponses == 2

---------------------------------------------------------------------------
\* Option and Result values

None == <<>>

Some(x) == <<x>>

Ok(v) == [ok |-> TRUE, val |-> v]

Err(e) == [ok |-> FALSE, err |-> e]

RECURSIVE SeqsOfLen(_, _)
\* All sequences of length n over the set S.
SeqsOfLen(S, n) ==
    IF n = 0 THEN {<<>>}
    ELSE {Append(s, x) : s \in SeqsOfLen(S, n - 1), x \in S}

SeqsUpTo(S, n) == UNION {SeqsOfLen(S, k) : k \in 0..n}

---------------------------------------------------------------------------
\* Scalars and group elements

FieldElement == 0..(Order - 1)

\* A draw that can give zero.
FieldElementRandomWithZero == 0..(Order - 1)

\* FieldElement::random() draws a non-zero scalar.
FieldElementRandom == 1..(Order - 1)

GroupElement == 0..(Order - 1)

Identity == 0

FieldAdd(a, b) == (a + b) % Order

FieldMul(a, b) == (a * b) % Order

GroupAdd(p, q) == (p + q) % Order

\* &p * &s: the point p raised to the scalar s.
GroupMul(p, s) == (p * s) % Order

GroupNeg(p) == (Order - p) % Order

\* ate_2_pairing(a1, b1, a2, b2) = e(a1, b1) * e(a2, b2), an element of Gt.
ate_2_pairing(a1, b1, a2, b2) == ((a1 * b1) + (a2 * b2)) % Order

\* Gt's is_one().
is_one(gt) == gt = 0

RECURSIVE MultiScalarMulFrom(_, _, _)
MultiScalarMulFrom(bases, exps, k) ==
    IF k > Len(bases) THEN Identity
    ELSE GroupAdd(GroupMul(bases[k], exps[k]), MultiScalarMulFrom(bases, exps, k + 1))

\* multi_scalar_mul_const_time / multi_scalar_mul_var_time: the product of
\* bases[j]^exps[j]; an error when the two lengths differ.
multi_scalar_mul(bases, exps) ==
    IF Len(bases) # Len(exps) THEN Err([kind |-> "UnequalNoOfBasesExponents"])
    ELSE Ok(MultiScalarMulFrom(bases, exps, 1))

Labels == {"test", "demo"}

\* SignatureGroup::from_msg_hash(label || " : g"): a fixed non-identity point.
HashToG1(label) == IF label = "test" THEN 1 ELSE 2

\* OtherGroup::from_msg_hash(label || " : g_tilde").
HashToG2(label) == IF label = "test" THEN 2 ELSE 1

\* Params::new(label)
ParamsNew(label) == [g |-> HashToG1(label), g_tilde |-> HashToG2(label)]

---------------------------------------------------------------------------
\* keys.rs

\* Verkey::validate
validate(vk) ==
    IF Len(vk.Y) # Len(vk.Y_tilde)
    THEN Err([kind |-> "InvalidVerkey", y |-> Len(vk.Y), y_tilde |-> Len(vk.Y_tilde)])
    ELSE Ok(<<>>)

\* keygen with Y_tilde raised from g.
keygenOneGenerator(count_messages, label, x, y) ==
    LET g == HashToG1(label)
        g_tilde == HashToG2(label)
    IN  [sk |-> [X |-> GroupMul(g, x), y |-> y],
         vk |-> [g |-> g, g_tilde |-> g_tilde, X_tilde |-> GroupMul(g_tilde, x),
                 Y |-> [i \in 1..count_messages |-> GroupMul(g, y[i])],
                 Y_tilde |-> [i \in 1..count_messages |-> GroupMul(g, y[i])]]]

\* keygen(count_messages, label), with x and y the scalars it draws.
keygen(count_messages, label, x, y) ==
    LET g == HashToG1(label)
        g_tilde == HashToG2(label)
    IN  [sk |-> [X |-> GroupMul(g, x), y |-> y],
         vk |-> [g |-> g, g_tilde |-> g_tilde, X_tilde |-> GroupMul(g_tilde, x),
                 Y |-> [i \in 1..count_messages |-> GroupMul(g, y[i])],
                 Y_tilde |-> [i \in 1..count_messages |-> GroupMul(g_tilde, y[i])]]]

---------------------------------------------------------------------------
\* Signature

\* The exponent X_tilde * prod Y_tilde[i]^messages[i] of the verification
\* equation, as a point of G2.
SignedPoint(vk, messages) ==
    GroupAdd(vk.X_tilde, MultiScalarMulFrom(vk.Y_tilde, messages, 1))

\* Signature::check_verkey_and_messages_compat
check_verkey_and_messages_compat(messages, vk) ==
    IF Len(messages) # Len(vk.Y_tilde)
    THEN Err([kind |-> "UnsupportedNoOfMessages"])
    ELSE Ok(<<>>)

\* Signature::new(messages, sk, params), with u the scalar it draws:
\* sigma_1 = g^u, sigma_2 = (X * prod g^(y_i * m_i))^u.
SignatureNew(messages, sk, params, u) ==
    IF Len(messages) # Len(sk.y)
    THEN Err([kind |-> "UnsupportedNoOfMessages"])
    ELSE LET ym == [i \in 1..Len(messages) |-> FieldMul(sk.y[i], messages[i])]
             gs == [i \in 1..Len(messages) |-> params.g]
             e  == GroupAdd(sk.X, MultiScalarMulFrom(gs, ym, 1))
         IN  Ok([sigma_1 |-> GroupMul(params.g, u), sigma_2 |-> GroupMul(e, u)])

\* Signature::verify(messages, vk, params)
SignatureVerify(sig, messages, vk, params) ==
    IF Len(messages) # Len(vk.Y_tilde)
    THEN Err([kind |-> "UnsupportedNoOfMessages"])
    ELSE IF sig.sigma_1 = Identity
    THEN Ok(FALSE)
    ELSE Ok(is_one(ate_2_pairing(sig.sigma_1, SignedPoint(vk, messages),
                                 GroupNeg(sig.sigma_2), params.g_tilde)))

---------------------------------------------------------------------------
\* impl_PoK_VC!: proof of knowledge of the opening of a vector commitment

\* ProverCommitting::new()
ProverCommittingNew == [gens |-> <<>>, blindings |-> <<>>]

\* ProverCommitting::commit(gen, blinding): a missing blinding is drawn, and
\* fresh is the scalar that FieldElement::random() would give.
commit(committing, gen, blinding, fresh) ==
    [gens |-> Append(committing.gens, gen),
     blindings |-> Append(committing.blindings,
                          IF blinding = None THEN fresh ELSE blinding[1])]

\* ProverCommitting::finish()
finish(committing) ==
    [gens |-> committing.gens,
     blindings |-> committing.blindings,
     commitment |-> multi_scalar_mul(committing.gens, committing.blindings).val]

\* ProverCommitted::gen_proof(challenge, secrets)
vc_gen_proof(committed, challenge, secrets) ==
    IF Len(secrets) # Len(committed.blindings)
    THEN Err([kind |-> "UnequalNoOfBasesExponents"])
    ELSE Ok([commitment |-> committed.commitment,
             responses |-> [j \in 1..Len(secrets) |->
                 FieldAdd(committed.blindings[j], FieldMul(challenge, secrets[j]))]])

\* Proof::verify with the commitment not raised to the challenge.
vc_verifyNoChallenge(proof_vc, bases, commitment, challenge) ==
    IF Len(bases) # Len(proof_vc.responses)
    THEN Err([kind |-> "UnequalNoOfBasesExponents"])
    ELSE Ok(MultiScalarMulFrom(bases, proof_vc.responses, 1)
              = GroupAdd(proof_vc.commitment, commitment))

\* Proof::verify(bases, commitment, challenge):
\* prod bases[j]^responses[j] = T * commitment^challenge
vc_verify(proof_vc, bases, commitment, challenge) ==
    IF Len(bases) # Len(proof_vc.responses)
    THEN Err([kind |-> "UnequalNoOfBasesExponents"])
    ELSE Ok(MultiScalarMulFrom(bases, proof_vc.responses, 1)
              = GroupAdd(proof_vc.commitment, GroupMul(commitment, challenge)))

---------------------------------------------------------------------------
\* pok_sig.rs

\* The width of usize (scaled down) and the largest capacity a vector can be
\* allocated with (isize::MAX bytes).
UsizeBits == 8

UsizeModulus == 2 ^ UsizeBits

CapacityLimit == (2 ^ (UsizeBits - 1)) - 1

\* A panic of the running thread.
Panic(msg) == [ok |-> FALSE, panic |-> msg]

IsPanic(res) == "panic" \in DOMAIN res

RECURSIVE HiddenFrom(_, _, _)
\* The indices i (from 0) of `for i in 0..n` that the loop does not skip, in
\* the order the loop meets them.
HiddenFrom(i, n, revealed) ==
    IF i >= n THEN <<>>
    ELSE IF i \in revealed THEN HiddenFrom(i + 1, n, revealed)
    ELSE <<i>> \o HiddenFrom(i + 1, n, revealed)

\* bases of init and of verify: g_tilde, then Y_tilde[i] of every index kept.
HiddenBases(vk, params, revealed) ==
    LET h == HiddenFrom(0, Len(vk.Y_tilde), revealed)
    IN  <<params.g_tilde>> \o [k \in 1..Len(h) |-> vk.Y_tilde[h[k] + 1]]

\* exponents of init with the messages taken by slot, not by index.
HiddenExponentsBySlot(vk, messages, revealed, t) ==
    LET h == HiddenFrom(0, Len(vk.Y_tilde), revealed)
    IN  <<t>> \o [k \in 1..Len(h) |-> messages[k]]

\* exponents of init: t, then messages[i] of every index kept.
HiddenExponents(vk, messages, revealed, t) ==
    LET h == HiddenFrom(0, Len(vk.Y_tilde), revealed)
    IN  <<t>> \o [k \in 1..Len(h) |-> messages[h[k] + 1]]

\* The vector of optional blindings with None pushed at its end.
BlindingSlotsAppended(blindings, hidden) ==
    (IF blindings = None
     THEN [j \in 1..hidden |-> None]
     ELSE [j \in 1..Len(blindings[1]) |-> Some(blindings[1][j])]) \o <<None>>

\* The vector of optional blindings of init, after blindings.insert(0, None).
BlindingSlots(blindings, hidden) ==
    <<None>> \o (IF blindings = None
                 THEN [j \in 1..hidden |-> None]
                 ELSE [j \in 1..Len(blindings[1]) |-> Some(blindings[1][j])])

RECURSIVE CommitAll(_, _, _, _)
\* for b in bases { committing.commit(b, blindings.remove(0)) }: fresh holds
\* the scalars that commit draws, in the order it draws them.
CommitAll(committing, bases, slots, fresh) ==
    IF bases = <<>> THEN committing
    ELSE IF Head(slots) = None
    THEN CommitAll(commit(committing, Head(bases), None, Head(fresh)),
                   Tail(bases), Tail(slots), Tail(fresh))
    ELSE CommitAll(commit(committing, Head(bases), Head(slots), 0),
                   Tail(bases), Tail(slots), fresh)

\* The number of scalars commit draws in init.
FreshCount(blindings, hidden) == IF blindings = None THEN hidden + 1 ELSE 1

\* sigma_prime of init with r applied to sigma_2 alone.
RandomizeMisplaced(sig, r, t) ==
    [sigma_1 |-> GroupMul(sig.sigma_1, r),
     sigma_2 |-> GroupAdd(GroupMul(sig.sigma_2, r), GroupMul(sig.sigma_1, t))]

\* sigma_prime of init
Randomize(sig, r, t) ==
    [sigma_1 |-> GroupMul(sig.sigma_1, r),
     sigma_2 |-> GroupMul(GroupAdd(sig.sigma_2, GroupMul(sig.sigma_1, t)), r)]

\* The first check of init: every revealed index is below messages.len().
IndexInRange(idx, messages) == idx < Len(messages)

\* The count check of init with the revealed messages not taken off.
BlindingsMatchAll(messages, revealed_msg_indices, b) == Len(messages) = Len(b)

\* The third check of init: one blinding for every hidden message.
BlindingsMatch(messages, revealed_msg_indices, b) ==
    Len(messages) - Cardinality(revealed_msg_indices) = Len(b)

\* The checks of init with the count of blindings checked before the count
\* of messages.
InitChecksCompatLast(vk, messages, blindings, revealed_msg_indices) ==
    IF \E idx \in revealed_msg_indices : ~IndexInRange(idx, messages)
    THEN Err([kind |-> "GeneralError", msg |-> "Index should be less than"])
    ELSE IF /\ blindings # None
            /\ ~BlindingsMatch(messages, revealed_msg_indices, blindings[1])
    THEN Err([kind |-> "GeneralError",
              msg |-> "No of blindings not equal to number of hidden messages"])
    ELSE check_verkey_and_messages_compat(messages, vk)

\* The checks of init, in its order.
InitChecks(vk, messages, blindings, revealed_msg_indices) ==
    IF \E idx \in revealed_msg_indices : ~IndexInRange(idx, messages)
    THEN Err([kind |-> "GeneralError", msg |-> "Index should be less than"])
    ELSE IF ~check_verkey_and_messages_compat(messages, vk).ok
    THEN check_verkey_and_messages_compat(messages, vk)
    ELSE IF /\ blindings # None
            /\ ~BlindingsMatch(messages, revealed_msg_indices, blindings[1])
    THEN Err([kind |-> "GeneralError",
              msg |-> "No of blindings not equal to number of hidden messages"])
    ELSE Ok(<<>>)

\* PoKOfSignature::init(sig, vk, params, messages, blindings,
\* revealed_msg_indices), with r, t and fresh the scalars it draws.
init(sig, vk, params, messages, blindings, revealed_msg_indices, r, t, fresh) ==
    IF ~InitChecks(vk, messages, blindings, revealed_msg_indices).ok
    THEN InitChecks(vk, messages, blindings, revealed_msg_indices)
    ELSE LET bases     == HiddenBases(vk, params, revealed_msg_indices)
             exponents == HiddenExponents(vk, messages, revealed_msg_indices, t)
             slots     == BlindingSlots(blindings,
                              Len(messages) - Cardinality(revealed_msg_indices))
             committed == finish(CommitAll(ProverCommittingNew, bases, slots, fresh))
         IN  Ok([secrets |-> exponents,
                 sig |-> Randomize(sig, r, t),
                 J |-> multi_scalar_mul(bases, exponents).val,
                 pok_vc |-> committed])

\* PoKOfSignature::gen_proof(challenge)
gen_proof(pok, challenge) ==
    LET proof_vc == vc_gen_proof(pok.pok_vc, challenge, pok.secrets)
    IN  IF ~proof_vc.ok THEN proof_vc
        ELSE Ok([sig |-> pok.sig, J |-> pok.J, proof_vc |-> proof_vc.val])

\* A check of sigma_1 alone, as Signature::verify makes.
HasIdentitySigma1(sig) == sig.sigma_1 = Identity

\* The first check of verify.
HasIdentity(sig) == sig.sigma_1 = Identity \/ sig.sigma_2 = Identity

RECURSIVE RevealedSum(_, _, _)
\* b.multi_scalar_mul_var_time(&e) of verify over the entries of revealed_msgs.
RevealedSum(vk, revealed_msgs, todo) ==
    IF todo = {} THEN Identity
    ELSE LET i == CHOOSE k \in todo : TRUE
         IN  GroupAdd(GroupMul(vk.Y_tilde[i + 1], revealed_msgs[i]),
                      RevealedSum(vk, revealed_msgs, todo \ {i}))

\* verify without the fold of the revealed messages.
FoldRevealedSkipped(proofJ, vk, revealed_msgs) == proofJ

\* J of verify: the proof's J with the revealed messages folded in.
FoldRevealed(proofJ, vk, revealed_msgs) ==
    IF DOMAIN revealed_msgs = {} THEN proofJ
    ELSE GroupAdd(proofJ, RevealedSum(vk, revealed_msgs, DOMAIN revealed_msgs))

\* The pairing check of verify: e(sigma_1, J * X_tilde) * e(-sigma_2, g_tilde) = 1.
PairingCheck(sig, J, vk, params) ==
    is_one(ate_2_pairing(sig.sigma_1, GroupAdd(J, vk.X_tilde),
                         GroupNeg(sig.sigma_2), params.g_tilde))

\* verify, from the hidden_msg_count line on.
VerifyBody(proof, vk, params, revealed_msgs, challenge, overflow_checks) ==
    LET n  == Len(vk.Y_tilde)
        d  == Cardinality(DOMAIN revealed_msgs)
        hidden_msg_count == (n - d + 1) % UsizeModulus
    IN  IF overflow_checks /\ n < d
        THEN Panic("attempt to subtract with overflow")
        ELSE IF hidden_msg_count > CapacityLimit
        THEN Panic("capacity overflow")
        ELSE LET bases == HiddenBases(vk, params, DOMAIN revealed_msgs)
                 vc    == vc_verify(proof.proof_vc, bases, proof.J, challenge)
             IN  IF ~vc.ok THEN vc
                 ELSE IF ~vc.val THEN Ok(FALSE)
                 ELSE IF \E i \in DOMAIN revealed_msgs : i >= n
                 THEN Panic("index out of bounds")
                 ELSE Ok(PairingCheck(proof.sig, FoldRevealed(proof.J, vk, revealed_msgs),
                                      vk, params))

\* PoKOfSignatureProof::verify(vk, params, revealed_msgs, challenge);
\* overflow_checks tells whether the build checks integer overflow.
verify(proof, vk, params, revealed_msgs, challenge, overflow_checks) ==
    IF HasIdentity(proof.sig) THEN Ok(FALSE)
    ELSE VerifyBody(proof, vk, params, revealed_msgs, challenge, overflow_checks)

---------------------------------------------------------------------------
\* The state: the values a caller of the library holds.

VARIABLES
    pc,            \* the last operation that ran
    params,        \* Some(Params)
    sk,            \* Some(Sigkey)
    vk,            \* Some(Verkey)
    count,         \* Some(count_messages) when vk comes from keygen
    validated,     \* Some(result of Verkey::validate)
    msgs,          \* the message vector
    sig,           \* Some(Signature)
    args,          \* Some(blindings and revealed_msg_indices given to init)
    drawn,         \* Some(r, t and the blindings init drew)
    pok,           \* Some(result of PoKOfSignature::init)
    challenge,     \* Some(challenge)
    proof,         \* Some(result of gen_proof)
    revealed_msgs, \* Some(revealed_msgs given to verify)
    verified,      \* Some(result of PoKOfSignatureProof::verify)
    linked,        \* Some(what is kept of an earlier proof to link it with)
    group,         \* the group a PoK-VC runs in
    committing,    \* Some(ProverCommitting)
    committed,     \* Some(ProverCommitted)
    secrets,       \* the secrets given to ProverCommitted::gen_proof
    proof_vc,      \* Some(result of ProverCommitted::gen_proof)
    vc_verified    \* Some(result of Proof::verify)

vcvars == <<group, committing, committed, secrets, proof_vc, vc_verified>>

sigvars == <<params, sk, vk, count, validated, msgs, sig, args, drawn, pok,
             proof, revealed_msgs, verified, linked>>

vars == <<pc, params, sk, vk, count, validated, msgs, sig, args, drawn, pok,
          challenge, proof, revealed_msgs, verified, linked, vcvars>>

Init ==
    /\ pc = "start"
    /\ params = None /\ sk = None /\ vk = None /\ count = None
    /\ validated = None
    /\ msgs = <<>> /\ sig = None
    /\ args = None /\ drawn = None /\ pok = None
    /\ challenge = None /\ proof = None
    /\ revealed_msgs = None /\ verified = None
    /\ linked = None
    /\ group = "" /\ committing = None /\ committed = None
    /\ secrets = <<>> /\ proof_vc = None /\ vc_verified = None

\* let params = Params::new(label); let (sk, vk) = keygen(count_messages, label)
KeygenIn(labels) ==
    /\ pc = "start"
    /\ \E label \in labels, n \in 0..MaxMsgs :
         \E x \in FieldElementRandom, y \in SeqsOfLen(FieldElementRandom, n) :
            LET keys == keygen(n, label, x, y)
            IN  /\ params' = Some(ParamsNew(label))
                /\ sk' = Some(keys.sk)
                /\ vk' = Some(keys.vk)
                /\ count' = Some(n)
    /\ pc' = "keygen"
    /\ UNCHANGED <<linked, vcvars, validated, msgs, sig, args, drawn, pok, challenge, proof,
                   revealed_msgs, verified>>

Keygen == KeygenIn({"test"})

\* let sig = Signature::new(msgs, &sk, &params).unwrap()
Sign ==
    /\ pc = "keygen"
    /\ \E messages \in SeqsOfLen(FieldElement, Len(vk[1].Y_tilde)), u \in FieldElementRandom :
         /\ msgs' = messages
         /\ sig' = Some(SignatureNew(messages, sk[1], params[1], u).val)
    /\ pc' = "sign"
    /\ UNCHANGED <<linked, vcvars, params, sk, vk, count, validated, args, drawn, pok, challenge,
                   proof, revealed_msgs, verified>>

\* Any pair of points taken as a signature on msgs (the fields of Signature
\* are public).
Forge ==
    /\ pc = "keygen"
    /\ \E messages \in SeqsOfLen(FieldElement, Len(vk[1].Y_tilde)),
          s1 \in GroupElement, s2 \in GroupElement :
         /\ msgs' = messages
         /\ sig' = Some([sigma_1 |-> s1, sigma_2 |-> s2])
    /\ pc' = "sign"
    /\ UNCHANGED <<linked, vcvars, params, sk, vk, count, validated, args, drawn, pok, challenge,
                   proof, revealed_msgs, verified>>

\* The blindings a caller can give init for `hidden` hidden messages.
BlindingsFor(hidden) == {None} \cup {Some(b) : b \in SeqsOfLen(FieldElement, hidden)}

\* PoKOfSignature::init with the arguments blindings and revealed.
InitWith(blindings, revealed) ==
    LET hidden == Len(msgs) - Cardinality(revealed)
    IN  \E r \in FieldElementRandom, t \in FieldElementRandom :
        \E fresh \in SeqsOfLen(FieldElementRandom,
                               IF hidden >= 0 THEN FreshCount(blindings, hidden) ELSE 1) :
          LET res == init(sig[1], vk[1], params[1], msgs, blindings, revealed,
                          r, t, fresh)
          IN  /\ args' = Some([blindings |-> blindings, revealed |-> revealed])
              /\ drawn' = IF res.ok THEN Some([r |-> r, t |-> t, fresh |-> fresh])
                          ELSE None
              /\ pok' = Some(res)

\* let pok = PoKOfSignature::init(&sig, &vk, &params, msgs, blindings, revealed)
\* called as its contract asks.
PoKInit ==
    /\ pc = "sign"
    /\ \E revealed \in SUBSET (0..(Len(msgs) - 1)) :
         \E blindings \in BlindingsFor(Len(msgs) - Cardinality(revealed)) :
            InitWith(blindings, revealed)
    /\ pc' = "init"
    /\ UNCHANGED <<linked, vcvars, params, sk, vk, count, validated, msgs, sig, challenge, proof,
                   revealed_msgs, verified>>

\* let proof = pok.gen_proof(&chal); proofs that are linked share the challenge.
GenProof ==
    /\ pc = "init"
    /\ pok[1].ok
    /\ \E c \in (IF linked = None THEN FieldElement ELSE {linked[1].challenge}) :
         /\ challenge' = Some(c)
         /\ proof' = Some(gen_proof(pok[1].val, c))
    /\ pc' = "gen_proof"
    /\ UNCHANGED <<linked, vcvars, params, sk, vk, count, validated, msgs, sig, args, drawn, pok,
                   revealed_msgs, verified>>

\* proof.verify(&vk, &params, revealed, &chal)
VerifyWith(revealed) ==
    /\ revealed_msgs' = Some(revealed)
    /\ \E overflow_checks \in BOOLEAN :
         verified' = Some(verify(proof[1].val, vk[1], params[1], revealed,
                                 challenge[1], overflow_checks))
    /\ pc' = "verify"
    /\ UNCHANGED <<linked, vcvars, params, sk, vk, count, validated, msgs, sig, args, drawn, pok,
                   challenge, proof>>

\* The revealed messages of the proof: D = {i -> m_i : i in R}.
TrueRevealed == [i \in args[1].revealed |-> msgs[i + 1]]

\* The verifier is given the messages the prover revealed.
Verify ==
    /\ pc = "gen_proof"
    /\ proof[1].ok
    /\ VerifyWith(TrueRevealed)

\* The verifier is given another scalar than m_i at one revealed index.
VerifyWrongReveal ==
    /\ pc = "gen_proof"
    /\ proof[1].ok
    /\ \E i \in args[1].revealed :
         \E d \in FieldElement \ {msgs[i + 1]} :
            VerifyWith([TrueRevealed EXCEPT ![i] = d])

Next == Keygen \/ Sign \/ PoKInit \/ GenProof \/ Verify \/ VerifyWrongReveal

Spec == Init /\ [][Next]_vars

NextForge == Keygen \/ Forge \/ PoKInit \/ GenProof \/ Verify

SpecForge == Init /\ [][NextForge]_vars

\* A proof object received from anyone: the fields of PoKOfSignatureProof are
\* public and it is deserializable.
Receive ==
    /\ pc = "keygen"
    /\ \E s1 \in GroupElement, s2 \in GroupElement, J \in GroupElement,
          T \in GroupElement, responses \in SeqsUpTo(FieldElement, MaxResponses) :
         proof' = Some(Ok([sig |-> [sigma_1 |-> s1, sigma_2 |-> s2],
                           J |-> J,
                           proof_vc |-> [commitment |-> T, responses |-> responses]]))
    /\ pc' = "receive"
    /\ UNCHANGED <<linked, vcvars, params, sk, vk, count, validated, msgs, sig, args, drawn, pok,
                   challenge, revealed_msgs, verified>>

\* The maps a caller can give verify: any indices up to MaxMsgs, in range or not.
RevealedMaps == UNION {[S -> FieldElement] : S \in SUBSET (0..MaxMsgs)}

\* proof.verify(&vk, &params, revealed, &chal) on any proof object, map and
\* challenge.
VerifyAny ==
    /\ pc = "receive"
    /\ \E c \in FieldElement, revealed \in RevealedMaps :
         /\ challenge' = Some(c)
         /\ revealed_msgs' = Some(revealed)
         /\ \E overflow_checks \in BOOLEAN :
              verified' = Some(verify(proof[1].val, vk[1], params[1], revealed,
                                      c, overflow_checks))
    /\ pc' = "verify"
    /\ UNCHANGED <<linked, vcvars, params, sk, vk, count, validated, msgs, sig, args, drawn, pok,
                   proof>>

NextVerify == Keygen \/ Receive \/ VerifyAny

SpecVerify == Init /\ [][NextVerify]_vars

\* Any message vector and any pair of points, whatever the key supports.
ForgeAny ==
    /\ pc = "keygen"
    /\ \E messages \in SeqsUpTo(FieldElement, MaxMsgs),
          s1 \in GroupElement, s2 \in GroupElement :
         /\ msgs' = messages
         /\ sig' = Some([sigma_1 |-> s1, sigma_2 |-> s2])
    /\ pc' = "sign"
    /\ UNCHANGED <<linked, vcvars, params, sk, vk, count, validated, args, drawn, pok, challenge,
                   proof, revealed_msgs, verified>>

\* PoKOfSignature::init with any revealed indices and any number of blindings.
InitAny ==
    /\ pc = "sign"
    /\ \E revealed \in SUBSET (0..MaxMsgs) :
         \E blindings \in {None} \cup {Some(b) : b \in SeqsUpTo(FieldElement, MaxMsgs)} :
            InitWith(blindings, revealed)
    /\ pc' = "init"
    /\ UNCHANGED <<linked, vcvars, params, sk, vk, count, validated, msgs, sig, challenge, proof,
                   revealed_msgs, verified>>

NextInit == Keygen \/ ForgeAny \/ InitAny

SpecInit == Init /\ [][NextInit]_vars

\* Verkey { g, g_tilde, X_tilde, Y, Y_tilde } built by hand or deserialized.
MakeVerkey ==
    /\ pc = "start"
    /\ \E label \in Labels, X_tilde \in GroupElement,
          Y \in SeqsUpTo(GroupElement, MaxMsgs),
          Y_tilde \in SeqsUpTo(GroupElement, MaxMsgs) :
         vk' = Some([g |-> HashToG1(label), g_tilde |-> HashToG2(label),
                     X_tilde |-> X_tilde, Y |-> Y, Y_tilde |-> Y_tilde])
    /\ pc' = "verkey"
    /\ UNCHANGED <<params, sk, count, validated, msgs, sig, args, drawn, pok,
                   challenge, proof, revealed_msgs, verified, linked, vcvars>>

KeygenAnyLabel == KeygenIn(Labels)

\* vk.validate()
Validate ==
    /\ pc \in {"keygen", "verkey"}
    /\ validated' = Some(validate(vk[1]))
    /\ pc' = "validate"
    /\ UNCHANGED <<params, sk, vk, count, msgs, sig, args, drawn, pok,
                   challenge, proof, revealed_msgs, verified, linked, vcvars>>

NextKeys == KeygenAnyLabel \/ MakeVerkey \/ Validate

SpecKeys == Init /\ [][NextKeys]_vars

\* init called with blindings from the caller.
PoKInitBlinded ==
    /\ pc = "sign"
    /\ \E revealed \in SUBSET (0..(Len(msgs) - 1)) :
         \E b \in SeqsOfLen(FieldElement, Len(msgs) - Cardinality(revealed)) :
            InitWith(Some(b), revealed)
    /\ pc' = "init"
    /\ UNCHANGED <<params, sk, vk, count, validated, msgs, sig, challenge, proof,
                   revealed_msgs, verified, linked, vcvars>>

\* The slot (from 0) of the hidden index i among the hidden indices in
\* ascending order.
SlotOf(i, revealed) == Cardinality({k \in 0..(i - 1) : k \notin revealed})

\* The first proof is done: the response of one hidden message is kept, with
\* the message and the blinding the prover used there, and a second proof is
\* started under the same key, to be made with the same challenge.
Link ==
    /\ pc = "gen_proof"
    /\ linked = None
    /\ proof[1].ok
    /\ args[1].blindings # None
    /\ \E i \in (0..(Len(msgs) - 1)) \ args[1].revealed :
         LET j == SlotOf(i, args[1].revealed)
         IN  linked' = Some([response  |-> proof[1].val.proof_vc.responses[1 + j + 1],
                             message   |-> msgs[i + 1],
                             blinding  |-> args[1].blindings[1][j + 1],
                             slot      |-> j,
                             challenge |-> challenge[1]])
    /\ msgs' = <<>> /\ sig' = None /\ args' = None /\ drawn' = None
    /\ pok' = None /\ proof' = None
    /\ pc' = "keygen"
    /\ UNCHANGED <<params, sk, vk, count, validated, challenge, revealed_msgs,
                   verified, vcvars>>

NextLink == Keygen \/ Sign \/ PoKInitBlinded \/ GenProof \/ Link

SpecLink == Init /\ [][NextLink]_vars

---------------------------------------------------------------------------
\* The PoK-VC protocol on its own, in G1 (SignatureGroup) and G2 (OtherGroup)

\* The largest number of bases committed to.
MaxBases == 2

\* ProverCommitting::new()
VCNew ==
    /\ pc = "start"
    /\ \E grp \in {"SignatureGroup", "OtherGroup"} : group' = grp
    /\ committing' = Some(ProverCommittingNew)
    /\ pc' = "vc_commit"
    /\ UNCHANGED <<sigvars, challenge, committed, secrets, proof_vc, vc_verified>>

\* committing.commit(&base, blinding)
VCCommit ==
    /\ pc = "vc_commit"
    /\ Len(committing[1].gens) < MaxBases
    /\ \E base \in GroupElement, fresh \in FieldElementRandom,
          blinding \in {None} \cup {Some(b) : b \in FieldElement} :
         committing' = Some(commit(committing[1], base, blinding, fresh))
    /\ UNCHANGED <<pc, sigvars, challenge, group, committed, secrets, proof_vc,
                   vc_verified>>

\* let committed = committing.finish()
VCFinish ==
    /\ pc = "vc_commit"
    /\ committed' = Some(finish(committing[1]))
    /\ pc' = "vc_finish"
    /\ UNCHANGED <<sigvars, challenge, group, committing, secrets, proof_vc,
                   vc_verified>>

\* let proof = committed.gen_proof(&c, w)
VCGenProof ==
    /\ pc = "vc_finish"
    /\ \E c \in FieldElement, w \in SeqsUpTo(FieldElement, MaxBases) :
         /\ challenge' = Some(c)
         /\ secrets' = w
         /\ proof_vc' = Some(vc_gen_proof(committed[1], c, w))
    /\ pc' = "vc_gen_proof"
    /\ UNCHANGED <<sigvars, group, committing, committed, vc_verified>>

\* proof.verify(bases, &C, &c) with C = prod bases[j]^w[j]
VCVerify ==
    /\ pc = "vc_gen_proof"
    /\ proof_vc[1].ok
    /\ vc_verified' = Some(vc_verify(proof_vc[1].val, committed[1].gens,
                                     multi_scalar_mul(committed[1].gens, secrets).val,
                                     challenge[1]))
    /\ pc' = "vc_verify"
    /\ UNCHANGED <<sigvars, challenge, group, committing, committed, secrets,
                   proof_vc>>

NextVC == VCNew \/ VCCommit \/ VCFinish \/ VCGenProof \/ VCVerify

SpecVC == Init /\ [][NextVC]_vars

---------------------------------------------------------------------------
\* The claims

\* sig is a valid signature on msgs under vk.
ValidSignature == SignatureVerify(sig[1], msgs, vk[1], params[1]) = Ok(TRUE)

\* The t drawn by init makes sigma_prime_2 = (sigma_2 * sigma_1^t)^r the identity.
CancellingT ==
    GroupAdd(sig[1].sigma_2, GroupMul(sig[1].sigma_1, drawn[1].t)) = Identity

\* verify was given the revealed messages of the proof.
HonestVerify == pc = "verify" /\ revealed_msgs[1] = TrueRevealed

\* C1 as claimed: for every valid signature, revealed set, blinding vector,
\* r, t and challenge, the proof of init and gen_proof is accepted by verify
\* when it is given the revealed messages and the same challenge.
C1_AsClaimed ==
    (HonestVerify /\ ValidSignature) => verified[1] = Ok(TRUE)

\* C1 amended: the proof of a valid signature is accepted by verify, given the
\* revealed messages and the same challenge, for every revealed set, blinding
\* vector, r and challenge, and every t but the one for which
\* sigma_2 * sigma_1^t is the identity.
C1_Completeness ==
    (HonestVerify /\ ValidSignature /\ ~CancellingT) => verified[1] = Ok(TRUE)

\* A proof that reveals one of two messages, with a blinding from the caller,
\* is accepted.
C1_Witness ==
    /\ HonestVerify /\ ValidSignature /\ ~CancellingT
    /\ Cardinality(args[1].revealed) = 1 /\ Len(msgs) = 2
    /\ msgs[1] # 0 /\ msgs[2] # 0
    /\ args[1].blindings # None
    /\ verified[1] = Ok(TRUE)

\* C2: when the verifier's map differs from the signed messages at one
\* revealed index, verify returns false for the honest proof.
C2_WrongReveal ==
    (pc = "verify" /\ ValidSignature /\ revealed_msgs[1] # TrueRevealed)
        => verified[1] = Ok(FALSE)

\* A wrong revealed message is rejected by the pairing check, not by the
\* identity check.
C2_Witness ==
    /\ pc = "verify" /\ ValidSignature
    /\ revealed_msgs[1] # TrueRevealed
    /\ DOMAIN revealed_msgs[1] = args[1].revealed
    /\ proof[1].val.sig.sigma_1 # 0 /\ proof[1].val.sig.sigma_2 # 0
    /\ verified[1] = Ok(FALSE)

\* C3 as claimed: init does not check the signature, and the proof is
\* accepted exactly when the signature is valid.
C3_AsClaimed ==
    /\ pc \in {"init", "gen_proof", "verify"} => pok[1].ok
    /\ HonestVerify => (verified[1] = Ok(TRUE) <=> ValidSignature)

\* C3 amended: init does not check the signature; the proof is accepted
\* exactly when the signature is valid and sigma_2 * sigma_1^t is not the
\* identity, so a proof built from an invalid signature is always rejected.
C3_AcceptedIffValid ==
    /\ pc \in {"init", "gen_proof", "verify"} => pok[1].ok
    /\ HonestVerify => (verified[1] = Ok(TRUE) <=> (ValidSignature /\ ~CancellingT))
    /\ (HonestVerify /\ ~ValidSignature) => verified[1] = Ok(FALSE)

\* A proof built from an invalid signature with sigma_1 other than the
\* identity passes the identity check and is rejected.
C3_Witness ==
    /\ HonestVerify /\ ~ValidSignature
    /\ pok[1].ok
    /\ proof[1].val.sig.sigma_1 # 0 /\ proof[1].val.sig.sigma_2 # 0
    /\ verified[1] = Ok(FALSE)

\* The randomized signature of the proof holds the identity of G1.
ProofHasIdentity ==
    proof[1].val.sig.sigma_1 = 0 \/ proof[1].val.sig.sigma_2 = 0

\* verify was given an index that the verification key does not have.
IndexOutside == \E i \in DOMAIN revealed_msgs[1] : i >= Len(vk[1].Y_tilde)

\* C4: a proof whose sigma_prime_1 or sigma_prime_2 is the identity makes
\* verify return Ok(false), whatever the key, the revealed map, the PoK-VC
\* part and the challenge are.
C4_IdentityRejected ==
    (pc = "verify" /\ ProofHasIdentity) => verified[1] = Ok(FALSE)

\* sigma_prime_2 alone is the identity, and the map has more entries than the
\* key has messages and an index outside it: the steps after the identity
\* check would not return a boolean.
C4_Witness ==
    /\ pc = "verify"
    /\ proof[1].val.sig.sigma_1 # Identity /\ proof[1].val.sig.sigma_2 = Identity
    /\ Cardinality(DOMAIN revealed_msgs[1]) > Len(vk[1].Y_tilde)
    /\ IndexOutside
    /\ verified[1] = Ok(FALSE)

\* C10: verify returns a boolean or an error on every proof object and every
\* revealed map, never aborts, and never returns true when the map holds an
\* index outside [0, n).
C10_Total ==
    pc = "verify" =>
        /\ ~IsPanic(verified[1])
        /\ IndexOutside => verified[1] # Ok(TRUE)

\* The kind of the error of an init result, "" when there is none.
ErrorKind(res) == IF res.ok THEN "" ELSE res.err.kind

\* The error kind that three checks in order give, the first one comparing the
\* revealed indices with limit; "" when they all pass.
CheckedInOrder(limit) ==
    LET n == Len(vk[1].Y_tilde)
        R == args[1].revealed
        b == args[1].blindings
    IN  IF \E i \in R : i >= limit THEN "GeneralError"
        ELSE IF Len(msgs) # n THEN "UnsupportedNoOfMessages"
        ELSE IF b # None /\ Len(b[1]) # n - Cardinality(R) THEN "GeneralError"
        ELSE ""

\* C5 as claimed: init checks (1) every revealed index is below the message
\* count n of the key, else GeneralError; (2) the message vector has length n,
\* else UnsupportedNoOfMessages; (3) the blindings count is n - |R|, else
\* GeneralError; the earliest failing check gives the error.
C5_AsClaimed ==
    pc = "init" => ErrorKind(pok[1]) = CheckedInOrder(Len(vk[1].Y_tilde))

\* C5 amended: as claimed, but check (1) compares every revealed index
\* with the length of the message vector given to init; no working state is
\* produced on a failure.
C5_CheckOrder ==
    pc = "init" =>
        /\ ErrorKind(pok[1]) = CheckedInOrder(Len(msgs))
        /\ ~pok[1].ok => (DOMAIN pok[1] = {"ok", "err"} /\ drawn = None)

\* A call that fails check (1) and check (2) together, with blindings given,
\* gets the error of check (1).
C5_Witness ==
    /\ pc = "init"
    /\ Len(msgs) < Len(vk[1].Y_tilde)
    /\ \E i \in args[1].revealed : i >= Len(msgs)
    /\ args[1].blindings # None
    /\ pok[1] = Err([kind |-> "GeneralError", msg |-> "Index should be less than"])

\* C6 as claimed: init fails with UnsupportedNoOfMessages whenever the length
\* of the message vector differs from the message count of the key, for every
\* revealed set and blinding argument.
C6_AsClaimed ==
    (pc = "init" /\ Len(msgs) # Len(vk[1].Y_tilde))
        => ErrorKind(pok[1]) = "UnsupportedNoOfMessages"

\* C6 amended: init fails with UnsupportedNoOfMessages whenever the length of
\* the message vector differs from the message count of the key and every
\* revealed index is below that length, for every blinding argument; with a
\* revealed index at or above that length it fails with GeneralError.
C6_MessageCount ==
    (pc = "init" /\ Len(msgs) # Len(vk[1].Y_tilde)) =>
        IF \A i \in args[1].revealed : i < Len(msgs)
        THEN ErrorKind(pok[1]) = "UnsupportedNoOfMessages"
        ELSE ErrorKind(pok[1]) = "GeneralError"

\* A vector longer than the key supports, a revealed index and blindings of
\* the wrong count: UnsupportedNoOfMessages.
C6_Witness ==
    /\ pc = "init"
    /\ Len(msgs) > Len(vk[1].Y_tilde)
    /\ args[1].revealed # {}
    /\ args[1].blindings # None
    /\ Len(args[1].blindings[1]) # Len(msgs) - Cardinality(args[1].revealed)
    /\ pok[1] = Err([kind |-> "UnsupportedNoOfMessages"])

\* The hidden indices (from 0) of the proof under way.
HiddenIndices == (0..(Len(msgs) - 1)) \ args[1].revealed

\* C7: when a hidden message of the second proof has the value and the
\* caller's blinding of the hidden message kept from the first proof, and both
\* proofs use the same challenge, its response at 1 + slot equals the response
\* kept; response 0 is the one of t, made with a blinding that is drawn.
C7_SharedBlinding ==
    (pc = "gen_proof" /\ proof[1].ok) =>
        /\ proof[1].val.proof_vc.responses[1]
             = (drawn[1].fresh[1] + (challenge[1] * drawn[1].t)) % Order
        /\ (linked # None /\ args[1].blindings # None) =>
             \A i \in HiddenIndices :
                LET j2 == Cardinality({k \in HiddenIndices : k < i})
                IN  (/\ msgs[i + 1] = linked[1].message
                     /\ args[1].blindings[1][j2 + 1] = linked[1].blinding)
                      => proof[1].val.proof_vc.responses[1 + j2 + 1] = linked[1].response

\* The same non-zero message with the same blinding sits at another slot of
\* the second proof, which reveals a message, and the responses are equal.
C7_Witness ==
    /\ pc = "gen_proof" /\ proof[1].ok /\ linked # None
    /\ challenge[1] # 0
    /\ linked[1].message # 0
    /\ args[1].revealed # {}
    /\ \E i \in HiddenIndices :
          LET j2 == Cardinality({k \in HiddenIndices : k < i})
          IN  /\ j2 # linked[1].slot
              /\ msgs[i + 1] = linked[1].message
              /\ args[1].blindings[1][j2 + 1] = linked[1].blinding
              /\ proof[1].val.proof_vc.responses[1 + j2 + 1] = linked[1].response

\* C8: keygen returns a verification key with |Y| = |Y_tilde| = n in which
\* Y_i and Y_tilde_i are the two generators raised to the same scalar, and
\* validate returns Ok on it; validate returns Ok exactly when
\* |Y| = |Y_tilde| and otherwise InvalidVerkey with the two lengths.
C8_VerkeyShape ==
    /\ count # None =>
         /\ Len(vk[1].Y) = count[1] /\ Len(vk[1].Y_tilde) = count[1]
         /\ \A i \in 1..count[1] : \E y \in FieldElement :
               /\ vk[1].Y[i] = (params[1].g * y) % Order
               /\ vk[1].Y_tilde[i] = (params[1].g_tilde * y) % Order
    /\ (pc = "validate" /\ count # None) => validated[1] = Ok(<<>>)
    /\ pc = "validate" =>
         IF Len(vk[1].Y) = Len(vk[1].Y_tilde)
         THEN validated[1] = Ok(<<>>)
         ELSE validated[1] = Err([kind |-> "InvalidVerkey", y |-> Len(vk[1].Y),
                                  y_tilde |-> Len(vk[1].Y_tilde)])

\* A key of keygen for two messages has been validated.
C8_Witness ==
    /\ pc = "validate" /\ count # None /\ count[1] >= 2
    /\ vk[1].Y # vk[1].Y_tilde
    /\ validated[1] = Ok(<<>>)

\* C9: the proof (T, s) of commit, finish and gen_proof(c, w) over k bases has
\* s_j = rho_j + c * w_j and is accepted by verify(bases, C, c) with
\* C = prod b_j^(w_j), in either group.
C9_VCComplete ==
    /\ (pc = "vc_gen_proof" /\ Len(secrets) = Len(committed[1].gens)) =>
         /\ proof_vc[1].ok
         /\ \A j \in 1..Len(secrets) :
               proof_vc[1].val.responses[j]
                 = (committed[1].blindings[j] + (challenge[1] * secrets[j])) % Order
    /\ pc = "vc_verify" => vc_verified[1] = Ok(TRUE)

\* A proof over two bases with non-zero secrets and a non-zero challenge is
\* accepted.
C9_Witness ==
    /\ pc = "vc_verify"
    /\ Len(committed[1].gens) = 2
    /\ committed[1].gens[1] # committed[1].gens[2]
    /\ \A j \in 1..2 : secrets[j] # 0 /\ committed[1].gens[j] # 0
    /\ challenge[1] # 0
    /\ vc_verified[1] = Ok(TRUE)

\* The hidden index (from 0) at slot s (from 0) of the hidden indices in
\* ascending order.
HiddenAt(s) ==
    CHOOSE i \in HiddenIndices : Cardinality({k \in HiddenIndices : k < i}) = s

\* The base list (g_tilde, Y_tilde_h1, Y_tilde_h2, ...) over the hidden indices.
SlotBases ==
    [j \in 1..(Cardinality(HiddenIndices) + 1) |->
        IF j = 1 THEN params[1].g_tilde ELSE vk[1].Y_tilde[HiddenAt(j - 2) + 1]]

\* The secret list (t, m_h1, m_h2, ...) over the hidden indices.
SlotSecrets ==
    [j \in 1..(Cardinality(HiddenIndices) + 1) |->
        IF j = 1 THEN drawn[1].t ELSE msgs[HiddenAt(j - 2) + 1]]

RECURSIVE SlotProduct(_)
\* The product of the first k bases of SlotBases raised to SlotSecrets.
SlotProduct(k) ==
    IF k = 0 THEN 0
    ELSE (SlotProduct(k - 1) + (SlotBases[k] * SlotSecrets[k])) % Order

\* C11: the working state of init has the bases (g_tilde, Y_tilde_h1, ...) and
\* the secrets (t, m_h1, ...) over the hidden indices in ascending order, both
\* of length n - |R| + 1, and J is the product of those bases raised to those
\* secrets; gen_proof on it does not fail, and verify with dom(D) = R
\* rebuilds the same base list in the same order.
C11_SlotLayout ==
    /\ (pc \in {"init", "gen_proof", "verify"} /\ pok[1].ok) =>
         /\ pok[1].val.pok_vc.gens = SlotBases
         /\ pok[1].val.secrets = SlotSecrets
         /\ Len(pok[1].val.pok_vc.gens)
              = Len(vk[1].Y_tilde) - Cardinality(args[1].revealed) + 1
         /\ Len(pok[1].val.secrets) = Len(pok[1].val.pok_vc.gens)
         /\ pok[1].val.J = SlotProduct(Cardinality(HiddenIndices) + 1)
    /\ pc \in {"gen_proof", "verify"} => proof[1].ok
    /\ (pc = "verify" /\ DOMAIN revealed_msgs[1] = args[1].revealed) =>
         /\ HiddenBases(vk[1], params[1], DOMAIN revealed_msgs[1]) = SlotBases
         /\ HiddenBases(vk[1], params[1], DOMAIN revealed_msgs[1])
              = pok[1].val.pok_vc.gens

\* The first of two different messages is revealed: the one hidden message
\* sits at slot 1, after t, and the proof is made and accepted.
C11_Witness ==
    /\ pc = "verify"
    /\ Len(msgs) = 2 /\ args[1].revealed = {0}
    /\ msgs[1] # msgs[2] /\ msgs[1] # 0
    /\ vk[1].Y_tilde[1] # vk[1].Y_tilde[2]
    /\ DOMAIN revealed_msgs[1] = {0}
    /\ pok[1].val.secrets = <<drawn[1].t, msgs[2]>>
    /\ pok[1].val.pok_vc.gens = <<params[1].g_tilde, vk[1].Y_tilde[2]>>
    /\ proof[1].ok
    /\ verified[1] = Ok(TRUE)

====
